---- MODULE Spec2Model ----
(***************************************************************************)
(* Model of tzolkin_oraculo.py: the date -> Kin correlation (anchor Kin    *)
(* 206 on 20/12/2012, Hunab Ku leap-day adjustment), the decomposition of  *)
(* a Kin into tone / seal / color, the inverse search (seal, tone) -> Kin  *)
(* and the oracle rules (analog, antipode, guide, occult).                 *)
(*                                                                         *)
(* The functions of the file are pure; each is an operator below, computed *)
(* the way the code computes it.  The state machine is a batch of calls of *)
(* one function: Init draws the function and its argument list, and the    *)
(* action of that function applies it to the next argument and records     *)
(* what it returned (a value, or the exception it raised).                 *)
(***************************************************************************)
EXTENDS Integers, Sequences, FiniteSets

VARIABLES op, calls, results

vars == <<op, calls, results>>

(***************************************************************************)
(* Bounds of the inputs.                                                   *)
(***************************************************************************)
\* years before / after the anchor's year whose dates are drawn
YearsBefore == 2
YearsAfter == 5
\* of every month the days 1..HeadDays and 28..31 are drawn
HeadDays == 1
\* the months 1..HeadMonths and 12 are drawn
HeadMonths == 3
\* seal / tone arguments are drawn this far outside 1..20 and 1..13
Slack == 2

\* Python's integer %: the result has the sign of the divisor
PyMod(a, n) == a % n

(***************************************************************************)
(* datetime.date: a (year, month, day) value, ordered as the triple, with  *)
(* the proleptic Gregorian ordinal behind date - date.                     *)
(***************************************************************************)
MkDate(y, m, d) == [year |-> y, month |-> m, day |-> d]

DateLT(a, b) ==
    \/ a.year < b.year
    \/ a.year = b.year /\ a.month < b.month
    \/ a.year = b.year /\ a.month = b.month /\ a.day < b.day

DateLE(a, b) == a = b \/ DateLT(a, b)

\* the calendar's own leap years, which decide the dates that exist
GregorianLeap(y) == (y % 4 = 0) /\ ((y % 100 # 0) \/ (y % 400 = 0))

DaysInMonth(y, m) ==
    IF m = 2 THEN (IF GregorianLeap(y) THEN 29 ELSE 28)
    ELSE IF m \in {4, 6, 9, 11} THEN 30 ELSE 31

DaysBeforeYear(y) ==
    LET p == y - 1 IN p * 365 + (p \div 4) - (p \div 100) + (p \div 400)

DaysBeforeMonth(y, m) ==
    <<0, 31, 59, 90, 120, 151, 181, 212, 243, 273, 304, 334>>[m]
        + (IF m > 2 /\ GregorianLeap(y) THEN 1 ELSE 0)

ToOrdinal(d) == DaysBeforeYear(d.year) + DaysBeforeMonth(d.year, d.month) + d.day

\* (a - b).days
DaysBetween(a, b) == ToOrdinal(a) - ToOrdinal(b)

(***************************************************************************)
(* Constant tables.                                                        *)
(***************************************************************************)
SEALS == <<
    "Dragão", "Vento", "Noite", "Semente", "Serpente",
    "Enlaçador de Mundos", "Mão", "Estrela", "Lua", "Cão",
    "Macaco", "Humano", "Caminhante do Céu", "Mago", "Águia",
    "Guerreiro", "Terra", "Espelho", "Tempestade", "Sol" >>

TONES == <<
    "Magnético", "Lunar", "Elétrico", "Autoexistente", "Harmônico",
    "Rítmico", "Ressonante", "Galáctico", "Solar", "Planetário",
    "Espectral", "Cristal", "Cósmico" >>

COLORS == << "Vermelho", "Branco", "Azul", "Amarelo" >>

ANCHOR_DATE == MkDate(2012, 12, 20)
ANCHOR_KIN == 206

(***************************************************************************)
(* _hunab_ku_adjust: the Feb 29s with mn < feb29 <= mx, signed.            *)
(***************************************************************************)
_is_leap(year) ==
    (PyMod(year, 4) = 0) /\ ((PyMod(year, 100) # 0) \/ (PyMod(year, 400) = 0))

\* the loop "for y in range(mn.year, mx.year + 1)": the years it counts
Feb29Years(mn, mx) ==
    { y \in (mn.year)..(mx.year) :
        /\ _is_leap(y)
        /\ DateLT(mn, MkDate(y, 2, 29))
        /\ DateLE(MkDate(y, 2, 29), mx) }

CountFeb29(mn, mx) == Cardinality(Feb29Years(mn, mx))

\* the sign rule dropped: the count is always subtracted
AdjustAlwaysNegative(anchor, target) ==
    IF target = anchor THEN 0
    ELSE LET mn == IF DateLT(anchor, target) THEN anchor ELSE target
             mx == IF DateLT(anchor, target) THEN target ELSE anchor
         IN  -CountFeb29(mn, mx)

\* the bounds swapped: the smaller date included, the larger excluded
AdjustIncludesLower(anchor, target) ==
    IF target = anchor THEN 0
    ELSE LET mn == IF DateLT(anchor, target) THEN anchor ELSE target
             mx == IF DateLT(anchor, target) THEN target ELSE anchor
             count == Cardinality({ y \in (mn.year)..(mx.year) :
                        /\ _is_leap(y)
                        /\ DateLE(mn, MkDate(y, 2, 29))
                        /\ DateLT(MkDate(y, 2, 29), mx) })
         IN  IF DateLT(anchor, target) THEN -count ELSE count

_hunab_ku_adjust(anchor, target) ==
    IF target = anchor THEN 0
    ELSE LET mn == IF DateLT(anchor, target) THEN anchor ELSE target
             mx == IF DateLT(anchor, target) THEN target ELSE anchor
             count == CountFeb29(mn, mx)
         IN  IF DateLT(anchor, target) THEN -count ELSE count

(***************************************************************************)
(* kin_from_date: (kin, tone, seal, color) of a date.                      *)
(***************************************************************************)
\* a remainder that truncates towards zero, as the % of C
KinFromDateTruncatingMod(d) ==
    LET delta == DaysBetween(d, ANCHOR_DATE) + _hunab_ku_adjust(ANCHOR_DATE, d)
        x == delta + (ANCHOR_KIN - 1)
        kin == (IF x >= 0 THEN x % 260 ELSE -((-x) % 260)) + 1
        tone == PyMod(kin - 1, 13) + 1
        seal == PyMod(kin - 1, 20) + 1
    IN  [kin |-> kin, tone |-> tone, seal |-> seal,
         color |-> COLORS[PyMod(seal - 1, 4) + 1]]

\* the anchor Kin added without the - 1 of the 1-based residue
KinFromDateAnchor207(d) ==
    LET delta == DaysBetween(d, ANCHOR_DATE) + _hunab_ku_adjust(ANCHOR_DATE, d)
        kin == PyMod(delta + ANCHOR_KIN, 260) + 1
        tone == PyMod(kin - 1, 13) + 1
        seal == PyMod(kin - 1, 20) + 1
    IN  [kin |-> kin, tone |-> tone, seal |-> seal,
         color |-> COLORS[PyMod(seal - 1, 4) + 1]]

kin_from_date(d) ==
    LET delta == DaysBetween(d, ANCHOR_DATE) + _hunab_ku_adjust(ANCHOR_DATE, d)
        kin == PyMod(delta + (ANCHOR_KIN - 1), 260) + 1
        tone == PyMod(kin - 1, 13) + 1
        seal == PyMod(kin - 1, 20) + 1
        color == COLORS[PyMod(seal - 1, 4) + 1]
    IN  [kin |-> kin, tone |-> tone, seal |-> seal, color |-> color]

(***************************************************************************)
(* kin_from_seal_tone: the first k of 1..260 with both residues, or the    *)
(* ValueError raised after the loop.                                       *)
(***************************************************************************)
Returned(v) == [raised |-> "", value |-> v]
Raised(e) == [raised |-> e, value |-> 0]

\* the loop "for k in range(1, 261)": it returns at the first k that matches
ScanKin(seal, tone) ==
    LET matches == { k \in 1..260 :
                        PyMod(k - 1, 20) + 1 = seal /\ PyMod(k - 1, 13) + 1 = tone }
    IN  IF matches = {} THEN Raised("ValueError")
        ELSE Returned(CHOOSE k \in matches : \A j \in matches : k <= j)

\* the scan stopped one short, range(1, 260)
KinFromSealToneScanTo259(seal, tone) ==
    LET r == ScanKin(seal, tone)
    IN  IF r.raised = "" /\ r.value = 260 THEN Raised("ValueError") ELSE r

\* the arguments wrapped into range before the scan
KinFromSealToneNormalizing(seal, tone) ==
    ScanKin(PyMod(seal - 1, 20) + 1, PyMod(tone - 1, 13) + 1)

kin_from_seal_tone(seal, tone) == ScanKin(seal, tone)

(***************************************************************************)
(* Oracle rules.                                                           *)
(***************************************************************************)
\* the residue 0 returned as it is
AnalogSealNoWrap(seal) == PyMod(19 - PyMod(seal, 20), 20)

analog_seal(seal) ==
    LET r == PyMod(19 - PyMod(seal, 20), 20)
    IN  IF r = 0 THEN 20 ELSE r

antipode_seal(seal) == PyMod(seal + 9, 20) + 1

occult_seal(seal) ==
    LET r == PyMod(21 - PyMod(seal, 20), 20)
    IN  IF r = 0 THEN 20 ELSE r

\* the residue 0 returned as it is
OccultToneNoWrap(tone) == PyMod(14 - PyMod(tone, 13), 13)

occult_tone(tone) ==
    LET r == PyMod(14 - PyMod(tone, 13), 13)
    IN  IF r = 0 THEN 13 ELSE r

\* None is -1
GUIDE_INDEX_BY_TONE ==
    [t \in 1..13 |->
        CASE t = 2 -> 4 [] t = 3 -> 3 [] t = 4 -> 2 [] t = 5 -> 3
          [] t = 7 -> 2 [] t = 8 -> 1 [] t = 9 -> 0 [] t = 10 -> 2
          [] t = 12 -> 1 [] t = 13 -> 3
          [] OTHER -> -1]

COLOR_GROUPS ==
    [c \in {"Vermelho", "Branco", "Azul", "Amarelo"} |->
        CASE c = "Vermelho" -> <<1, 5, 9, 13, 17>>
          [] c = "Branco" -> <<2, 6, 10, 14, 18>>
          [] c = "Azul" -> <<3, 7, 11, 15, 19>>
          [] c = "Amarelo" -> <<4, 8, 12, 16, 20>>]

\* the table shifted down by one position of the group
GuideSealShifted(seal, tone) ==
    IF tone \in {1, 6, 11} THEN Returned(seal)
    ELSE LET group == COLOR_GROUPS[COLORS[PyMod(seal - 1, 4) + 1]]
         IN  IF tone \notin DOMAIN GUIDE_INDEX_BY_TONE THEN Raised("KeyError")
             ELSE Returned(group[PyMod(GUIDE_INDEX_BY_TONE[tone] - 1, 5) + 1])

guide_seal(seal, tone) ==
    IF tone \in {1, 6, 11} THEN Returned(seal)
    ELSE LET color == COLORS[PyMod(seal - 1, 4) + 1]
             group == COLOR_GROUPS[color]
         IN  IF tone \notin DOMAIN GUIDE_INDEX_BY_TONE THEN Raised("KeyError")
             ELSE LET i == GUIDE_INDEX_BY_TONE[tone]
                  IN  IF i = -1 THEN Raised("TypeError")
                      ELSE IF i + 1 \in DOMAIN group THEN Returned(group[i + 1])
                      ELSE Raised("IndexError")

(***************************************************************************)
(* full_oracle_for_date: the record of the five parts, or the exception    *)
(* raised on the way.                                                      *)
(***************************************************************************)
Digit(n) == <<"0", "1", "2", "3", "4", "5", "6", "7", "8", "9">>[n + 1]

\* d.strftime("%d/%m/%Y") as the sequence of its characters
Strftime(d) ==
    << Digit(d.day \div 10), Digit(d.day % 10), "/",
       Digit(d.month \div 10), Digit(d.month % 10), "/",
       Digit((d.year \div 1000) % 10), Digit((d.year \div 100) % 10),
       Digit((d.year \div 10) % 10), Digit(d.year % 10) >>

\* seq[i] of a Python list: negative indexes count from the end
PyIndexOk(seq, i) == i \in (-Len(seq))..(Len(seq) - 1)
PyIndex(seq, i) == IF i >= 0 THEN seq[i + 1] ELSE seq[Len(seq) + i + 1]

\* the nested function part(seal_num, tone_num)
part(seal_num, tone_num) ==
    LET k == kin_from_seal_tone(seal_num, tone_num)
    IN  IF k.raised # "" THEN k
        ELSE IF ~PyIndexOk(SEALS, seal_num - 1) \/ ~PyIndexOk(TONES, tone_num - 1)
             THEN Raised("IndexError")
        ELSE Returned([kin |-> k.value,
                       selo_num |-> seal_num,
                       selo_nome |-> PyIndex(SEALS, seal_num - 1),
                       tom_num |-> tone_num,
                       tom_nome |-> PyIndex(TONES, tone_num - 1),
                       cor |-> COLORS[PyMod(seal_num - 1, 4) + 1]])

FirstRaised(rs) ==
    IF \E i \in DOMAIN rs : rs[i].raised # ""
    THEN rs[CHOOSE i \in DOMAIN rs :
                /\ rs[i].raised # ""
                /\ \A j \in 1..(i - 1) : rs[j].raised = ""].raised
    ELSE ""

\* the occult part looked up with the tone of the date, as the other roles
FullOracleOccultKeepsTone(d) ==
    LET r == kin_from_date(d)
        g_s == guide_seal(r.seal, r.tone)
        parts == << part(r.seal, r.tone), part(analog_seal(r.seal), r.tone),
                    part(antipode_seal(r.seal), r.tone), part(g_s.value, r.tone),
                    part(occult_seal(r.seal), r.tone) >>
    IN  IF g_s.raised # "" THEN Raised(g_s.raised)
        ELSE IF FirstRaised(parts) # "" THEN Raised(FirstRaised(parts))
        ELSE Returned([data |-> Strftime(d),
                       destino |-> [parts[1].value EXCEPT !.kin = r.kin, !.cor = r.color],
                       analogo |-> parts[2].value, antipoda |-> parts[3].value,
                       guia |-> parts[4].value, oculto |-> parts[5].value])

full_oracle_for_date(d) ==
    LET r == kin_from_date(d)
        kin == r.kin
        tone == r.tone
        seal == r.seal
        color == r.color
        a_s == analog_seal(seal)
        an_s == antipode_seal(seal)
        g_s == guide_seal(seal, tone)
        o_s == occult_seal(seal)
        o_t == occult_tone(tone)
    IN  IF g_s.raised # "" THEN Raised(g_s.raised)
        ELSE
        LET \* in the order the dict literal evaluates them
            parts == << part(seal, tone), part(a_s, tone), part(an_s, tone),
                        part(g_s.value, tone), part(o_s, o_t) >>
        IN  IF FirstRaised(parts) # "" THEN Raised(FirstRaised(parts))
            ELSE Returned(
                [data |-> Strftime(d),
                 destino |-> [parts[1].value EXCEPT !.kin = kin, !.cor = color],
                 analogo |-> parts[2].value,
                 antipoda |-> parts[3].value,
                 guia |-> parts[4].value,
                 oculto |-> parts[5].value])

(***************************************************************************)
(* The inputs.                                                             *)
(***************************************************************************)
\* years with the century rule of the leap years, far from the anchor
CenturyYears == {1900, 2000}

Years == ((ANCHOR_DATE.year - YearsBefore)..(ANCHOR_DATE.year + YearsAfter))
            \cup CenturyYears

Dates ==
    {ANCHOR_DATE} \cup
    { MkDate(y, m, d) : <<y, m, d>> \in
        { t \in Years \X ((1..HeadMonths) \cup {12}) \X ((1..HeadDays) \cup (28..31)) :
            t[3] <= DaysInMonth(t[1], t[2]) } }

\* every day of every month of the years around the anchor
AllDates ==
    { MkDate(y, m, d) : <<y, m, d>> \in
        { t \in ((ANCHOR_DATE.year - YearsBefore)..(ANCHOR_DATE.year + YearsAfter))
                    \X (1..12) \X (1..31) :
            t[3] <= DaysInMonth(t[1], t[2]) } }

SealArgs == (1 - Slack)..(20 + Slack)
ToneArgs == (1 - Slack)..(13 + Slack)

(***************************************************************************)
(* The state machine: a batch of calls of one function.                    *)
(***************************************************************************)
Init ==
    /\ results = <<>>
    /\ \/ /\ op = "kin_from_date"
          /\ calls \in {<<a>> : a \in AllDates} \cup {<<a, b>> : a \in Dates, b \in Dates}
       \/ /\ op = "_hunab_ku_adjust"
          /\ calls \in {<<[anchor |-> a, target |-> b]>> : a \in Dates, b \in Dates}
       \/ /\ op = "kin_from_seal_tone"
          /\ calls \in {<<[seal |-> s, tone |-> t]>> : s \in SealArgs, t \in ToneArgs}
       \/ /\ op = "guide_seal"
          /\ calls \in {<<[seal |-> s, tone |-> t]>> : s \in 1..20, t \in 1..13}
       \/ /\ op \in {"analog_seal", "antipode_seal", "occult_seal"}
          /\ calls \in {<<s>> : s \in SealArgs}
       \/ /\ op = "occult_tone"
          /\ calls \in {<<t>> : t \in ToneArgs}
       \/ /\ op = "full_oracle_for_date"
          /\ calls \in {<<d>> : d \in AllDates \cup Dates}

\* the argument of the next call of the batch
Pending == Len(results) < Len(calls)
Arg == calls[Len(results) + 1]

Return(v) ==
    /\ results' = Append(results, v)
    /\ UNCHANGED <<op, calls>>

KinFromDate ==
    /\ op = "kin_from_date" /\ Pending
    /\ Return(kin_from_date(Arg))

HunabKuAdjust ==
    /\ op = "_hunab_ku_adjust" /\ Pending
    /\ Return(_hunab_ku_adjust(Arg.anchor, Arg.target))

KinFromSealTone ==
    /\ op = "kin_from_seal_tone" /\ Pending
    /\ Return(kin_from_seal_tone(Arg.seal, Arg.tone))

GuideSeal ==
    /\ op = "guide_seal" /\ Pending
    /\ Return(guide_seal(Arg.seal, Arg.tone))

AnalogSeal ==
    /\ op = "analog_seal" /\ Pending
    /\ Return(analog_seal(Arg))

AntipodeSeal ==
    /\ op = "antipode_seal" /\ Pending
    /\ Return(antipode_seal(Arg))

OccultSeal ==
    /\ op = "occult_seal" /\ Pending
    /\ Return(occult_seal(Arg))

OccultTone ==
    /\ op = "occult_tone" /\ Pending
    /\ Return(occult_tone(Arg))

FullOracleForDate ==
    /\ op = "full_oracle_for_date" /\ Pending
    /\ Return(full_oracle_for_date(Arg))

Next ==
    \/ KinFromDate
    \/ HunabKuAdjust
    \/ KinFromSealTone
    \/ GuideSeal
    \/ AnalogSeal
    \/ AntipodeSeal
    \/ OccultSeal
    \/ OccultTone
    \/ FullOracleForDate

Spec == Init /\ [][Next]_vars

\* the batch has run to its end
Done == ~Pending

(***************************************************************************)
(* Notions the properties are stated with.                                 *)
(***************************************************************************)
\* the calls of the batch that have returned
Returns == 1..Len(results)

\* the Feb 29s of the calendar between 1900 and 2100, not by way of _is_leap
LeapDays == { MkDate(y, 2, 29) : y \in { 4 * n : n \in 476..524 } \cup {2000} }

LeapDaysStrictlyBetween(a, b) == { f \in LeapDays : DateLT(a, f) /\ DateLT(f, b) }

\* the color group of a seal, [c, c+4, c+8, c+12, c+16]
GroupOf(seal) ==
    LET c == ((seal - 1) % 4) + 1 IN <<c, c + 4, c + 8, c + 12, c + 16>>

\* the Kin advances from the first to the second date of a batch by one less
\* than the days between them, modulo 260
OneStepFewer ==
    (results[2].kin - results[1].kin) % 260
        = (DaysBetween(calls[2], calls[1]) - 1) % 260

(***************************************************************************)
(* Properties.                                                             *)
(***************************************************************************)

\* C1: kin_from_date(ANCHOR_DATE), the date 20/12/2012, returns exactly
\* (kin 206, tone 11, seal 6, color "Branco"), and SEALS[6 - 1] is
\* "Enlaçador de Mundos".
C1_AnchorResolvesTo206 ==
    op = "kin_from_date" =>
        \A i \in Returns :
            calls[i] = MkDate(2012, 12, 20) =>
                /\ results[i] = [kin |-> 206, tone |-> 11, seal |-> 6, color |-> "Branco"]
                /\ PyIndex(SEALS, results[i].seal - 1) = "Enlaçador de Mundos"

C1_Witness ==
    /\ op = "kin_from_date" /\ Len(results) = 1
    /\ calls[1] = MkDate(2012, 12, 20)

\* C2: for every date, before, on or after the anchor, kin_from_date returns
\* kin in 1..260, tone in 1..13 equal to ((kin-1) mod 13)+1, seal in 1..20
\* equal to ((kin-1) mod 20)+1 and color COLORS[(seal-1) mod 4]; a negative
\* day delta never gives a value outside these ranges.
C2_KinToneSealColorInRange ==
    op = "kin_from_date" =>
        \A i \in Returns :
            LET r == results[i] IN
            /\ r.kin \in 1..260
            /\ r.tone \in 1..13 /\ r.tone = ((r.kin - 1) % 13) + 1
            /\ r.seal \in 1..20 /\ r.seal = ((r.kin - 1) % 20) + 1
            /\ r.color = << "Vermelho", "Branco", "Azul", "Amarelo" >>[((r.seal - 1) % 4) + 1]

\* a date more than 260 days before the anchor has been resolved
C2_Witness ==
    /\ op = "kin_from_date" /\ Len(results) = 1
    /\ DaysBetween(calls[1], ANCHOR_DATE) < -260
    /\ results[1].kin \in 1..260

\* C3: for every kin in 1..260, kin_from_seal_tone(((kin-1) mod 20)+1,
\* ((kin-1) mod 13)+1) returns kin itself: the first match of the scan is the
\* only Kin with that (seal, tone) pair.
C3_InverseOfDecomposition ==
    op = "kin_from_seal_tone" =>
        \A i \in Returns : \A kin \in 1..260 :
            (calls[i].seal = ((kin - 1) % 20) + 1 /\ calls[i].tone = ((kin - 1) % 13) + 1)
                => results[i] = [raised |-> "", value |-> kin]

\* the pair of Kin 260, the last of the scan, has been looked up
C3_Witness ==
    /\ op = "kin_from_seal_tone" /\ Len(results) = 1
    /\ calls[1] = [seal |-> 20, tone |-> 13]
    /\ results[1].value = 260

\* C4 as stated: for every seal in 1..20 and every tone of {2,3,4,5,7,8,9,10,
\* 12,13}, guide_seal returns the member of the seal's color group at the
\* 0-based index of the table 2->3, 3->2, 4->1, 5->2, 7->1, 8->0, 9->4,
\* 10->1, 12->0, 13->2.
C4_GuideIndexAsStated ==
    op = "guide_seal" =>
        \A i \in Returns :
            LET stated == [t \in {2, 3, 4, 5, 7, 8, 9, 10, 12, 13} |->
                            CASE t = 2 -> 3 [] t = 3 -> 2 [] t = 4 -> 1 [] t = 5 -> 2
                              [] t = 7 -> 1 [] t = 8 -> 0 [] t = 9 -> 4 [] t = 10 -> 1
                              [] t = 12 -> 0 [] t = 13 -> 2]
            IN  calls[i].tone \in DOMAIN stated =>
                    results[i] = [raised |-> "",
                                  value |-> GroupOf(calls[i].seal)[stated[calls[i].tone] + 1]]

\* C4, amended: for every seal in 1..20 and every tone of {2,3,4,5,7,8,9,10,
\* 12,13}, guide_seal returns the member of the seal's color group at the
\* 0-based index of the table 2->4, 3->3, 4->2, 5->3, 7->2, 8->1, 9->0,
\* 10->2, 12->1, 13->3.
C4_GuideIndexOfTheTable ==
    op = "guide_seal" =>
        \A i \in Returns :
            LET table == [t \in {2, 3, 4, 5, 7, 8, 9, 10, 12, 13} |->
                            CASE t = 2 -> 4 [] t = 3 -> 3 [] t = 4 -> 2 [] t = 5 -> 3
                              [] t = 7 -> 2 [] t = 8 -> 1 [] t = 9 -> 0 [] t = 10 -> 2
                              [] t = 12 -> 1 [] t = 13 -> 3]
            IN  calls[i].tone \in DOMAIN table =>
                    results[i] = [raised |-> "",
                                  value |-> GroupOf(calls[i].seal)[table[calls[i].tone] + 1]]

\* the guide of seal 7 (Azul) with tone 2 has been looked up: seal 19
C4_Witness ==
    /\ op = "guide_seal" /\ Len(results) = 1
    /\ calls[1] = [seal |-> 7, tone |-> 2]
    /\ results[1] = [raised |-> "", value |-> 19]

\* C5: for every date, full_oracle_for_date completes without the
\* invalid-combination error: the (seal, tone) pair of each of Analog,
\* Antipode, Guide and Occult has seal in 1..20 and tone in 1..13, so
\* kin_from_seal_tone finds a Kin for all four roles, and the guide lookup
\* never indexes outside the group of 5.
C5_OracleNeverRaises ==
    op = "full_oracle_for_date" =>
        \A i \in Returns :
            /\ results[i].raised = ""
            /\ \A p \in { results[i].value.analogo, results[i].value.antipoda,
                          results[i].value.guia, results[i].value.oculto } :
                    /\ p.selo_num \in 1..20
                    /\ p.tom_num \in 1..13
                    /\ p.kin \in 1..260

\* the oracle of a date of seal 19, whose analog residue is 0, and tone 9,
\* whose guide is looked up in the table, has been built
C5_Witness ==
    /\ op = "full_oracle_for_date" /\ Len(results) = 1
    /\ results[1].raised = ""
    /\ results[1].value.destino.selo_num = 19
    /\ results[1].value.destino.tom_num = 9
    /\ results[1].value.analogo.selo_num = 20

\* C6 as stated: for any two dates a < b with exactly one Feb 29 strictly
\* between them (a < feb29 < b), before or after the anchor,
\* kin_from_date(b).kin - kin_from_date(a).kin is congruent modulo 260 to
\* (b - a in days) - 1.
C6_OneLeapDayBetweenAsStated ==
    (op = "kin_from_date" /\ Len(results) = 2) =>
        ((/\ DateLT(calls[1], calls[2])
          /\ Cardinality(LeapDaysStrictlyBetween(calls[1], calls[2])) = 1)
            => OneStepFewer)

\* C6, amended: for any two dates a < b with exactly one Feb 29 strictly
\* between them, where b is not itself a Feb 29, kin_from_date(b).kin -
\* kin_from_date(a).kin is congruent modulo 260 to (b - a in days) - 1.
C6_OneLeapDayBetween ==
    (op = "kin_from_date" /\ Len(results) = 2) =>
        ((/\ DateLT(calls[1], calls[2])
          /\ Cardinality(LeapDaysStrictlyBetween(calls[1], calls[2])) = 1
          /\ calls[2] \notin LeapDays)
            => OneStepFewer)

\* the dates on the two sides of 29/02/2016, after the anchor, and the dates
\* on the two sides of 29/02/2012, before it, have been resolved
C6_WitnessAfterAnchor ==
    /\ op = "kin_from_date" /\ Len(results) = 2
    /\ calls[1] = MkDate(2016, 2, 28) /\ calls[2] = MkDate(2016, 3, 1)
    /\ results[2].kin = results[1].kin + 1

C6_Witness ==
    /\ op = "kin_from_date" /\ Len(results) = 2
    /\ calls[1] = MkDate(2012, 2, 28) /\ calls[2] = MkDate(2012, 3, 1)
    /\ (results[2].kin - results[1].kin) % 260 = 1

\* C7: for all distinct dates a and b, _hunab_ku_adjust(a, b) =
\* -_hunab_ku_adjust(b, a): both calls count the Feb 29s with
\* min(a,b) < feb29 <= max(a,b), and the result is negative when the target
\* is after the anchor argument and positive when before.
C7_AdjustAntisymmetric ==
    op = "_hunab_ku_adjust" =>
        \A i \in Returns :
            LET a == calls[i].anchor
                b == calls[i].target
                lo == IF DateLT(a, b) THEN a ELSE b
                hi == IF DateLT(a, b) THEN b ELSE a
                n == Cardinality({ f \in LeapDays : DateLT(lo, f) /\ DateLE(f, hi) })
            IN  a # b =>
                    /\ results[i] = -_hunab_ku_adjust(b, a)
                    /\ results[i] = (IF DateLT(a, b) THEN -n ELSE n)

\* an adjustment over two leap days, target before the anchor argument
C7_Witness ==
    /\ op = "_hunab_ku_adjust" /\ Len(results) = 1
    /\ DateLT(calls[1].target, calls[1].anchor)
    /\ results[1] = 2

\* C8: occult_seal(occult_seal(s)) = s for all s in 1..20 and
\* occult_tone(occult_tone(t)) = t for all t in 1..13, the wrap-around
\* values s = 1, s = 20, t = 1, t = 13 included, where the residue 0 in
\* between is mapped to 20 or 13.
C8_OccultInvolution ==
    /\ op = "occult_seal" =>
            \A i \in Returns :
                calls[i] \in 1..20 =>
                    /\ results[i] \in 1..20
                    /\ occult_seal(results[i]) = calls[i]
    /\ op = "occult_tone" =>
            \A i \in Returns :
                calls[i] \in 1..13 =>
                    /\ results[i] \in 1..13
                    /\ occult_tone(results[i]) = calls[i]

\* the occult tone of 1 has been taken: 13, the residue 0 mapped
C8_Witness ==
    /\ op = "occult_tone" /\ Len(results) = 1
    /\ calls[1] = 1 /\ results[1] = 13

\* C9: kin_from_seal_tone(seal, tone) raises ValueError, returning no Kin, if
\* and only if seal is outside 1..20 or tone is outside 1..13; arguments out
\* of range are never normalized into a Kin, and every pair in range returns
\* a Kin in 1..260.
C9_ValueErrorIffOutOfRange ==
    op = "kin_from_seal_tone" =>
        \A i \in Returns :
            /\ results[i].raised = "ValueError"
                    <=> (calls[i].seal \notin 1..20 \/ calls[i].tone \notin 1..13)
            /\ results[i].raised \in {"", "ValueError"}
            /\ results[i].raised = "" => results[i].value \in 1..260

\* seal 21, one past the cycle, has been rejected
C9_Witness ==
    /\ op = "kin_from_seal_tone" /\ Len(results) = 1
    /\ calls[1].seal = 21 /\ calls[1].tone \in 1..13
    /\ results[1].raised = "ValueError"

\* C10: for every date, in the record of full_oracle_for_date the kin of the
\* Occult part plus the kin of the Destiny part is 261.
C10_OccultPlusDestinyIs261 ==
    op = "full_oracle_for_date" =>
        \A i \in Returns :
            results[i].raised = "" =>
                results[i].value.oculto.kin + results[i].value.destino.kin = 261

\* the oracle of a date of Kin 260 has been built: its occult Kin is 1
C10_Witness ==
    /\ op = "full_oracle_for_date" /\ Len(results) = 1
    /\ results[1].raised = ""
    /\ results[1].value.destino.kin = 260
    /\ results[1].value.oculto.kin = 1

====
